---------------------------- MODULE Spec2Model ----------------------------
(***************************************************************************)
(* Model of trippy-tracker (src/server.mjs).  The source holds two         *)
(* implementation variants of the same tracker:                            *)
(*   - the file-log variant (lines 1-226): events are appended as JSON     *)
(*     lines to events.jsonl and /stats tallies them in memory;            *)
(*   - the sqlite variant (lines 228-409): events are INSERTed into the    *)
(*     tables clicks and opens and /stats runs GROUP BY queries.           *)
(*                                                                         *)
(* A handler is split at its await on the store write: the synchronous     *)
(* part up to the await (Start), the settling of the write by the          *)
(* storage layer (AppendFileSettles / DbRunSettles) and the continuation   *)
(* after the await (Resume).  Several handlers may be suspended at once.   *)
(*                                                                         *)
(* An event is modelled by the fields the routes and /stats read: type,    *)
(* lead_id and campaign.  industry, ts, user_agent and ip_hash are         *)
(* written but never read back by any route and are left out.  The landing *)
(* base is a sequence of characters over " " (white space) and "u" (a      *)
(* piece of a well-formed absolute URL).                                   *)
(***************************************************************************)
EXTENDS Integers, Sequences, FiniteSets, TLC

VARIABLES
    variant,     \* "file" or "sqlite": which of the two programs is running
    landingEnv,  \* process.env.LANDING_BASE as given by the operator
    file,        \* events.jsonl: NoFile, or the sequence of its lines
    db,          \* data.sqlite: [clicks |-> rows, opens |-> rows]
    pc,          \* per request: "idle", "awaiting", "settled", "done"
    req,         \* per request: the route and its parameters
    wr,          \* per request: outcome of the store write
    resp,        \* per request: what the handler answered
    page         \* the last answer of /stats or /, and how its read ended

vars == <<variant, landingEnv, file, db, pc, req, wr, resp, page>>

-----------------------------------------------------------------------------
(* Bounds *)

MaxReq == 2

MaxLog == 3

Reqs == 1..MaxReq

Leads == {"L1", "L2"}

ReqLeads == {"L1"}

ReqCampaigns == {"", "a"}

LandingEnvs == {<<>>, <<" ">>, <<"u">>}

-----------------------------------------------------------------------------
(* JavaScript values *)

\* The own-and-inherited property names every object literal {} answers to.
ObjectPrototypeKeys ==
    {"constructor", "toString", "valueOf", "hasOwnProperty", "__proto__"}

\* String.prototype.trim over the character sequence.
RECURSIVE TrimStart(_)
TrimStart(s) ==
    IF s # <<>> /\ Head(s) = " " THEN TrimStart(Tail(s)) ELSE s

RECURSIVE TrimEnd(_)
TrimEnd(s) ==
    IF s # <<>> /\ s[Len(s)] = " " THEN TrimEnd(SubSeq(s, 1, Len(s) - 1)) ELSE s

Trim(s) == TrimEnd(TrimStart(s))

\* Truthiness of a string: non-empty.
Truthy(s) == s # <<>>

-----------------------------------------------------------------------------
(* Configuration *)

\* const LANDING_BASE: trimmed in the file-log variant, raw in the sqlite one.
LANDING_BASE ==
    IF variant = "file" THEN Trim(landingEnv) ELSE landingEnv

-----------------------------------------------------------------------------
(* Store *)

NoFile == <<[raw |-> "ENOENT", type |-> "", lead_id |-> "", campaign |-> ""]>>

BlankLine == [raw |-> "", type |-> "", lead_id |-> "", campaign |-> ""]

GarbageLine == [raw |-> "garbage", type |-> "", lead_id |-> "", campaign |-> ""]

NullLine == [raw |-> "null", type |-> "", lead_id |-> "", campaign |-> ""]

\* JSON.stringify(ev): the line whose JSON.parse gives ev back.
JSONstringify(ev) ==
    [raw |-> "json", type |-> ev.type, lead_id |-> ev.lead_id,
     campaign |-> ev.campaign]

\* The lines of events.jsonl ("" before the file exists).
Contents(f) == IF f = NoFile THEN <<>> ELSE f

\* A write that replaces the file instead of appending to it.
writeEvent(f, ev) == <<JSONstringify(ev)>>

\* appendEvent: one line added at the end of the file, created if missing.
appendEvent(f, ev) == Append(Contents(f), JSONstringify(ev))

\* An INSERT that replaces the last row instead of adding one.
replaceRow(table, row) ==
    IF table = <<>> THEN <<row>>
    ELSE Append(SubSeq(table, 1, Len(table) - 1), row)

\* run("INSERT INTO <table> ..."): one row added to the table.
insertRow(table, row) == Append(table, row)


-----------------------------------------------------------------------------
(* readEvents *)

JsNull == [type |-> "<null>", lead_id |-> "", campaign |-> ""]

\* data.split("\n"): the lines, then the empty string after the last "\n".
Split(data) == data \o <<BlankLine>>

\* JSON.parse(l): the stored object, null for the text null, or a throw.
JSONparse(l) ==
    IF l.raw = "json"
    THEN [threw |-> FALSE,
          value |-> [type |-> l.type, lead_id |-> l.lead_id,
                     campaign |-> l.campaign]]
    ELSE IF l.raw = "null"
    THEN [threw |-> FALSE, value |-> JsNull]
    ELSE [threw |-> TRUE, value |-> JsNull]

\* (l) => { try { return JSON.parse(l); } catch { return null; } }
ParseOrNull(l) ==
    LET p == JSONparse(l) IN IF p.threw THEN JsNull ELSE p.value

MapParse(ls) == [i \in 1..Len(ls) |-> ParseOrNull(ls[i])]

\* split / filter(Boolean) / map(parse) / filter(Boolean)
ParseData(data) ==
    LET nonEmpty == SelectSeq(Split(data), LAMBDA l : l.raw # "")
    IN  SelectSeq(MapParse(nonEmpty), LAMBDA e : e # JsNull)

\* The error codes fs.promises.readFile may end with for a file in state f.
ReadCodes(f) == IF f = NoFile THEN {"ENOENT", "EIO"} ELSE {"ok", "EIO"}

\* A catch that answers every read error with [].
readEventsSwallow(f, code) ==
    IF code = "ok" THEN [threw |-> FALSE, events |-> ParseData(f)]
    ELSE [threw |-> FALSE, events |-> <<>>]

\* readEvents(): ENOENT gives [], any other error is thrown again.
readEvents(f, code) ==
    IF code = "ok" THEN [threw |-> FALSE, events |-> ParseData(f)]
    ELSE IF code = "ENOENT" THEN [threw |-> FALSE, events |-> <<>>]
    ELSE [threw |-> TRUE, events |-> <<>>]

-----------------------------------------------------------------------------
(* summarize *)

\* const c = e.campaign || "(none)"
CampaignKey(e) == IF e.campaign # "" THEN e.campaign ELSE "(none)"

\* uniqueByCampaign[c].add(e.lead_id) on a Set
SetAdd(s, x) == s \cup {x}

EmptyTally == [keys |-> <<>>, totals |-> <<>>, unique |-> <<>>, threw |-> FALSE]

\* Index of key c among the own keys, 0 when it is not an own key.
OwnIndex(keys, c) ==
    IF \E i \in 1..Len(keys) : keys[i] = c
    THEN CHOOSE i \in 1..Len(keys) : keys[i] = c
    ELSE 0

\* One turn of the loop "for (const e of list)".  totalsByCampaign and
\* uniqueByCampaign are object literals: a key that is not an own property
\* but is a property of Object.prototype reads as that inherited (truthy)
\* value, so "uniqueByCampaign[c] || new Set()" keeps it and .add, which it
\* does not have, throws a TypeError.
SummarizeStep(acc, e) ==
    LET c == CampaignKey(e)
        i == OwnIndex(acc.keys, c)
    IN  IF acc.threw THEN acc
        ELSE IF i = 0 /\ c \in ObjectPrototypeKeys
        THEN [acc EXCEPT !.threw = TRUE]
        ELSE IF i = 0
        THEN [acc EXCEPT !.keys = Append(@, c),
                         !.totals = Append(@, 0 + 1),
                         !.unique = Append(@, SetAdd({}, e.lead_id))]
        ELSE [acc EXCEPT !.totals[i] = @ + 1,
                         !.unique[i] = SetAdd(@, e.lead_id)]

RECURSIVE Tally(_, _)
Tally(acc, list) ==
    IF list = <<>> THEN acc
    ELSE Tally(SummarizeStep(acc, Head(list)), Tail(list))

\* Place row r in the sorted rows behind every row whose total is not less:
\* Array.prototype.sort is stable, the comparator is b.total - a.total.
RECURSIVE InsertRow(_, _)
InsertRow(sorted, r) ==
    IF sorted = <<>> THEN <<r>>
    ELSE IF Head(sorted).total - r.total < 0
         THEN <<r>> \o sorted
         ELSE <<Head(sorted)>> \o InsertRow(Tail(sorted), r)

RECURSIVE SortRows(_, _)
SortRows(sorted, rest) ==
    IF rest = <<>> THEN sorted
    ELSE SortRows(InsertRow(sorted, Head(rest)), Tail(rest))

\* A tally that leaves out the first event of the list.
summarizeFromSecond(list) ==
    LET t == Tally(EmptyTally, IF list = <<>> THEN list ELSE Tail(list))
        rows == [i \in 1..Len(t.keys) |->
                    [campaign |-> t.keys[i], total |-> t.totals[i],
                     unique |-> Cardinality(t.unique[i])]]
    IN  [threw |-> t.threw,
         rows |-> IF t.threw THEN <<>> ELSE SortRows(<<>>, rows)]

\* function summarize(list)
summarize(list) ==
    LET t == Tally(EmptyTally, list)
        rows == [i \in 1..Len(t.keys) |->
                    [campaign |-> t.keys[i], total |-> t.totals[i],
                     unique |-> Cardinality(t.unique[i])]]
    IN  [threw |-> t.threw,
         rows |-> IF t.threw THEN <<>> ELSE SortRows(<<>>, rows)]

OfType(events, t) == SelectSeq(events, LAMBDA e : e.type = t)

-----------------------------------------------------------------------------
(* SQL aggregation of the sqlite variant *)

\* The sequences that list every element of the finite set S once.
Orderings(S) ==
    {f \in [1..Cardinality(S) -> S] : \A i, j \in 1..Cardinality(S) :
                                          i # j => f[i] # f[j]}

\* SELECT campaign, COUNT(*) as total FROM clicks GROUP BY campaign
GroupTotals(table) ==
    {[campaign |-> c,
      total |-> Cardinality({i \in 1..Len(table) : table[i].campaign = c})] :
        c \in {table[i].campaign : i \in 1..Len(table)}}

\* SELECT campaign, COUNT(DISTINCT lead_id) as unique_leads FROM clicks
\* GROUP BY campaign
GroupUnique(table) ==
    {[campaign |-> c,
      unique_leads |->
          Cardinality({table[i].lead_id :
              i \in {j \in 1..Len(table) : table[j].campaign = c}})] :
        c \in {table[i].campaign : i \in 1..Len(table)}}

\* ORDER BY total DESC: any listing with non-increasing totals.
ByTotalDesc(groups) ==
    {f \in Orderings(groups) :
        \A i \in 1..(Len(f) - 1) : f[i].total >= f[i + 1].total}

\* ORDER BY unique_leads DESC
ByUniqueDesc(groups) ==
    {f \in Orderings(groups) :
        \A i \in 1..(Len(f) - 1) : f[i].unique_leads >= f[i + 1].unique_leads}

\* ${r.campaign || "(none)"} in the rendered row
Label(rows) ==
    [i \in 1..Len(rows) |->
        [rows[i] EXCEPT !.campaign = IF @ # "" THEN @ ELSE "(none)"]]

-----------------------------------------------------------------------------
(* Requests and responses *)

NoReq == [route |-> "none", lead_id |-> "", campaign |-> ""]

NoResp == [outcome |-> "none", status |-> 0, base |-> <<>>, params |-> <<>>]

\* The handler's promise rejected: the handler sent nothing.
Rejected ==
    [outcome |-> "rejected", status |-> 0, base |-> <<>>, params |-> <<>>]

Sent(status) ==
    [outcome |-> "sent", status |-> status, base |-> <<>>, params |-> <<>>]

Redirect(base, params) ==
    [outcome |-> "sent", status |-> 302, base |-> base, params |-> params]

NoPage ==
    [outcome |-> "none", status |-> 0, location |-> "", read |-> "none",
     clicks |-> <<>>, opens |-> <<>>, conversions |-> <<>>,
     clickTotals |-> <<>>, clickUnique |-> <<>>]

\* const ev = { type, lead_id, campaign, ... }
Event(q) == [type |-> q.route, lead_id |-> q.lead_id, campaign |-> q.campaign]

\* url.searchParams.set(k, v): replaces the value of k, or adds k at the end.
SetParam(params, k, v) ==
    IF \E i \in 1..Len(params) : params[i][1] = k
    THEN [i \in 1..Len(params) |->
             IF params[i][1] = k THEN <<k, v>> ELSE params[i]]
    ELSE Append(params, <<k, v>>)

\* Lines 97-102: the landing URL of the file-log variant.
FileLandingParams(q) ==
    LET p1 == SetParam(<<>>, "lid", q.lead_id)
        p2 == IF q.campaign # "" THEN SetParam(p1, "utm_campaign", q.campaign)
              ELSE p1
        p3 == SetParam(p2, "utm_source", "coldemail")
        p4 == SetParam(p3, "utm_medium", "email")
    IN  SetParam(p4, "c", q.campaign)

\* Lines 318-320: the redirect target of the sqlite variant.
SqliteTarget(q) ==
    IF Truthy(LANDING_BASE)
    THEN Redirect(LANDING_BASE,
                  <<<<"lid", q.lead_id>>, <<"utm_campaign", q.campaign>>>>)
    ELSE Redirect(<<"/stats">>, <<>>)

\* The continuation runs while the write is still pending.
NotAwaited(r) == pc[r] \in {"awaiting", "settled"}

\* "await appendEvent(ev)" / "await run(...)": the handler goes on only
\* once the write has settled.
Awaited(r) == pc[r] = "settled"

\* A request slot is taken in order (the slots are interchangeable).
Free(r) == pc[r] = "idle" /\ (IF r = 1 THEN TRUE ELSE pc[r - 1] # "idle")

Start(r, route, lead, campaign) ==
    /\ Free(r)
    /\ pc' = [pc EXCEPT ![r] = "awaiting"]
    /\ req' = [req EXCEPT ![r] = [route |-> route, lead_id |-> lead,
                                  campaign |-> campaign]]
    /\ UNCHANGED <<variant, landingEnv, file, db, wr, resp, page>>

Finish(r, answer) ==
    /\ pc' = [pc EXCEPT ![r] = "done"]
    /\ resp' = [resp EXCEPT ![r] = answer]
    /\ UNCHANGED <<variant, landingEnv, file, db, req, wr, page>>

-----------------------------------------------------------------------------
(* The file-log variant *)

\* GET /r/:lead_id up to its await
FileClickStart(r) ==
    /\ variant = "file"
    /\ \E lead \in ReqLeads, c \in ReqCampaigns : Start(r, "click", lead, c)

\* GET /o/:lead_id.png up to its await
FileOpenStart(r) ==
    /\ variant = "file"
    /\ \E lead \in ReqLeads, c \in ReqCampaigns : Start(r, "open", lead, c)

\* GET /conv up to its await
FileConvStart(r) ==
    /\ variant = "file"
    /\ \E lead \in ReqLeads, c \in ReqCampaigns : Start(r, "conv", lead, c)

\* fs.promises.appendFile settles: the line is in the file, or it is not.
AppendFileSettles(r) ==
    /\ variant = "file"
    /\ pc[r] = "awaiting"
    /\ \E ok \in BOOLEAN :
          /\ file' = IF ok THEN appendEvent(file, Event(req[r])) ELSE file
          /\ wr' = [wr EXCEPT ![r] = IF ok THEN "ok" ELSE "fail"]
    /\ pc' = [pc EXCEPT ![r] = "settled"]
    /\ UNCHANGED <<variant, landingEnv, db, req, resp, page>>

\* GET /r/:lead_id after "try { await appendEvent(ev); } catch {}"
FileClickResume(r) ==
    /\ variant = "file"
    /\ req[r].route = "click"
    /\ Awaited(r)
    /\ Finish(r, IF ~Truthy(LANDING_BASE) THEN Sent(500)
                 ELSE Redirect(LANDING_BASE, FileLandingParams(req[r])))

\* GET /o/:lead_id.png after the await: the pixel
FileOpenResume(r) ==
    /\ variant = "file"
    /\ req[r].route = "open"
    /\ Awaited(r)
    /\ Finish(r, Sent(200))

\* GET /conv after the await
FileConvResume(r) ==
    /\ variant = "file"
    /\ req[r].route = "conv"
    /\ Awaited(r)
    /\ Finish(r, Sent(204))

\* The page of GET /stats for a read that ended with code.
FileStatsPage(f, code) ==
    LET rd == readEvents(f, code)
        clickRows == summarize(OfType(rd.events, "click"))
        openRows == summarize(OfType(rd.events, "open"))
        conversionRows == summarize(OfType(rd.events, "conv"))
    IN  IF rd.threw \/ clickRows.threw \/ openRows.threw \/ conversionRows.threw
        THEN [NoPage EXCEPT !.outcome = "rejected", !.read = code]
        ELSE [NoPage EXCEPT !.outcome = "sent", !.status = 200,
                            !.read = code,
                            !.clicks = clickRows.rows,
                            !.opens = openRows.rows,
                            !.conversions = conversionRows.rows]

\* GET /stats
FileStats ==
    /\ variant = "file"
    /\ \E code \in ReadCodes(file) : page' = FileStatsPage(file, code)
    /\ UNCHANGED <<variant, landingEnv, file, db, pc, req, wr, resp>>

\* GET /
FileRoot ==
    /\ variant = "file"
    /\ page' = [NoPage EXCEPT !.outcome = "sent", !.status = 302,
                              !.location = "/stats"]
    /\ UNCHANGED <<variant, landingEnv, file, db, pc, req, wr, resp>>

-----------------------------------------------------------------------------
(* The sqlite variant *)

\* GET /r/:lead_id up to "await run(INSERT INTO clicks ...)"
SqliteClickStart(r) ==
    /\ variant = "sqlite"
    /\ \E lead \in ReqLeads, c \in ReqCampaigns : Start(r, "click", lead, c)

\* GET /o/:lead_id.png up to "await run(INSERT INTO opens ...)"
SqliteOpenStart(r) ==
    /\ variant = "sqlite"
    /\ \E lead \in ReqLeads, c \in ReqCampaigns : Start(r, "open", lead, c)

\* db.run calls back: the row is in the table, or err is set.
DbRunSettles(r) ==
    /\ variant = "sqlite"
    /\ pc[r] = "awaiting"
    /\ \E ok \in BOOLEAN :
          /\ db' = IF ~ok THEN db
                   ELSE IF req[r].route = "click"
                   THEN [db EXCEPT !.clicks = insertRow(@, Event(req[r]))]
                   ELSE [db EXCEPT !.opens = insertRow(@, Event(req[r]))]
          /\ wr' = [wr EXCEPT ![r] = IF ok THEN "ok" ELSE "fail"]
    /\ pc' = [pc EXCEPT ![r] = "settled"]
    /\ UNCHANGED <<variant, landingEnv, file, req, resp, page>>

\* GET /r/:lead_id after the await: a rejected run() rejects the handler.
SqliteClickResume(r) ==
    /\ variant = "sqlite"
    /\ req[r].route = "click"
    /\ Awaited(r)
    /\ Finish(r, IF wr[r] = "fail" THEN Rejected ELSE SqliteTarget(req[r]))

\* GET /o/:lead_id.png after the await
SqliteOpenResume(r) ==
    /\ variant = "sqlite"
    /\ req[r].route = "open"
    /\ Awaited(r)
    /\ Finish(r, IF wr[r] = "fail" THEN Rejected ELSE Sent(200))

\* GET /stats: the campaign queries; all() may reject.
SqliteStats ==
    /\ variant = "sqlite"
    /\ \/ page' = [NoPage EXCEPT !.outcome = "rejected"]
       \/ \E t \in ByTotalDesc(GroupTotals(db.clicks)),
             u \in ByUniqueDesc(GroupUnique(db.clicks)) :
             page' = [NoPage EXCEPT !.outcome = "sent", !.status = 200,
                                    !.clickTotals = Label(t),
                                    !.clickUnique = Label(u)]
    /\ UNCHANGED <<variant, landingEnv, file, db, pc, req, wr, resp>>

-----------------------------------------------------------------------------
(* Specifications *)

Init ==
    /\ variant \in {"file", "sqlite"}
    /\ landingEnv \in LandingEnvs
    /\ file = NoFile
    /\ db = [clicks |-> <<>>, opens |-> <<>>]
    /\ pc = [r \in Reqs |-> "idle"]
    /\ req = [r \in Reqs |-> NoReq]
    /\ wr = [r \in Reqs |-> "none"]
    /\ resp = [r \in Reqs |-> NoResp]
    /\ page = NoPage

Next ==
    \/ \E r \in Reqs : FileClickStart(r)
    \/ \E r \in Reqs : FileOpenStart(r)
    \/ \E r \in Reqs : FileConvStart(r)
    \/ \E r \in Reqs : AppendFileSettles(r)
    \/ \E r \in Reqs : FileClickResume(r)
    \/ \E r \in Reqs : FileOpenResume(r)
    \/ \E r \in Reqs : FileConvResume(r)
    \/ FileStats
    \/ FileRoot
    \/ \E r \in Reqs : SqliteClickStart(r)
    \/ \E r \in Reqs : SqliteOpenStart(r)
    \/ \E r \in Reqs : DbRunSettles(r)
    \/ \E r \in Reqs : SqliteClickResume(r)
    \/ \E r \in Reqs : SqliteOpenResume(r)
    \/ SqliteStats

Spec == Init /\ [][Next]_vars

\* The lines an event log may hold: events the routes write, and lines that
\* do not parse to an event.
LogEvents ==
    {[type |-> "click", lead_id |-> l, campaign |-> c] :
        l \in Leads, c \in {"", "a", "b"}}
    \cup {[type |-> "click", lead_id |-> "L1", campaign |-> "constructor"],
          [type |-> "open", lead_id |-> "L1", campaign |-> "a"],
          [type |-> "conv", lead_id |-> "L1", campaign |-> ""]}

LogLines ==
    {JSONstringify(e) : e \in LogEvents} \cup {GarbageLine, NullLine, BlankLine}

Logs == UNION {[1..n -> LogLines] : n \in 0..MaxLog}

\* The file-log variant started on an event log left by earlier runs.
InitStats ==
    /\ variant = "file"
    /\ landingEnv = <<"u">>
    /\ file \in {NoFile} \cup Logs
    /\ db = [clicks |-> <<>>, opens |-> <<>>]
    /\ pc = [r \in Reqs |-> "idle"]
    /\ req = [r \in Reqs |-> NoReq]
    /\ wr = [r \in Reqs |-> "none"]
    /\ resp = [r \in Reqs |-> NoResp]
    /\ page = NoPage

NextStats == FileStats

SpecStats == InitStats /\ [][NextStats]_vars

-----------------------------------------------------------------------------
(* Properties of the request handlers, checked under Spec *)

\* The value of query parameter k of a redirect target, "<absent>" if none.
Param(answer, k) ==
    IF \E i \in 1..Len(answer.params) : answer.params[i][1] = k
    THEN answer.params[CHOOSE i \in 1..Len(answer.params) :
                           answer.params[i][1] = k][2]
    ELSE "<absent>"

\* The operator configured a landing base: something besides white space.
LandingConfigured == Trim(landingEnv) # <<>>

\* The table (or the file) the route of request r writes to.
StoreOf(r) ==
    IF variant = "file" THEN Contents(file)
    ELSE IF req[r].route = "click" THEN db.clicks
    ELSE db.opens

\* What the route of request r writes.
RecordOf(r) ==
    IF variant = "file" THEN JSONstringify(Event(req[r])) ELSE Event(req[r])

Occurrences(seq, x) == Cardinality({i \in 1..Len(seq) : seq[i] = x})

IsPrefix(s, t) == Len(s) <= Len(t) /\ SubSeq(t, 1, Len(s)) = s

\* C1: a tracking request whose store write failed does not raise: its
\* handler ends with the route's HTTP response sent.
C1_WriteFailureStillAnswers ==
    \A r \in Reqs :
        (pc[r] = "done" /\ wr[r] = "fail") => resp[r].outcome = "sent"

\* C2: with no landing base configured (empty or white space only), what a
\* click request is answered with is HTTP 500, never a redirect.
C2_NoLandingIs500 ==
    \A r \in Reqs :
        (req[r].route = "click" /\ ~LandingConfigured
            /\ resp[r].outcome = "sent")
        => resp[r].status = 500

\* C3: with a landing base configured, a click is answered with a 302 whose
\* target carries lid, utm_campaign, utm_source, utm_medium and c, for
\* every lead_id and campaign, the empty campaign included.
C3_RedirectCarriesFiveParams ==
    \A r \in Reqs :
        (req[r].route = "click" /\ LandingConfigured
            /\ resp[r].outcome = "sent")
        => /\ resp[r].status = 302
           /\ Param(resp[r], "lid") = req[r].lead_id
           /\ Param(resp[r], "utm_campaign") = req[r].campaign
           /\ Param(resp[r], "utm_source") = "coldemail"
           /\ Param(resp[r], "utm_medium") = "email"
           /\ Param(resp[r], "c") = req[r].campaign

\* C5: the store is append-only.  Every step keeps each record of the file
\* and of both tables where it was; a step adds at most one record, at the
\* end; and a step in which no store write settles (the start or the
\* continuation of a handler, /stats, /) leaves the store as it was.
C5_AppendOnly ==
    [][/\ IsPrefix(Contents(file), Contents(file'))
       /\ IsPrefix(db.clicks, db'.clicks)
       /\ IsPrefix(db.opens, db'.opens)
       /\ Len(Contents(file')) + Len(db'.clicks) + Len(db'.opens)
            <= Len(Contents(file)) + Len(db.clicks) + Len(db.opens) + 1
       /\ (wr' = wr => (file' = file /\ db' = db))]_vars

\* C5 witness: /stats has answered from a store of two records.
C5_Witness ==
    /\ page.outcome = "sent"
    /\ page.status = 200
    /\ \/ Len(Contents(file)) = 2
       \/ Len(db.clicks) = 2

\* C6: a handler answers only after its attempt to record the event has
\* settled, whatever the answer; so a click answered 500 for want of a
\* landing base is in the store when its write succeeded.
C6_RecordBeforeResponse ==
    \A r \in Reqs :
        resp[r].outcome # "none"
        => /\ wr[r] \in {"ok", "fail"}
           /\ wr[r] = "ok" => Occurrences(StoreOf(r), RecordOf(r)) >= 1

\* C6 witness: a click answered 500 whose record is in the file.
C6_Witness ==
    \E r \in Reqs :
        /\ req[r].route = "click"
        /\ resp[r].status = 500
        /\ wr[r] = "ok"
        /\ Occurrences(Contents(file), RecordOf(r)) >= 1

\* The requests that wrote record x to the store s.
Writers(s, x) ==
    {r \in Reqs : wr[r] = "ok" /\ StoreOf(r) = s /\ RecordOf(r) = x}

\* C7: under any interleaving of suspended handlers, the store holds one
\* record per request whose write succeeded and none for a request whose
\* write failed or is pending: nothing lost, duplicated or overwritten.
C7_OneRecordPerSuccessfulWrite ==
    /\ Len(Contents(file)) + Len(db.clicks) + Len(db.opens)
         = Cardinality({r \in Reqs : wr[r] = "ok"})
    /\ \A r \in Reqs :
          wr[r] = "ok"
          => Occurrences(StoreOf(r), RecordOf(r))
               = Cardinality(Writers(StoreOf(r), RecordOf(r)))

\* C7 witness: two handlers suspended at once, the write of the later
\* request landing first, both records stored.
C7_Witness ==
    /\ MaxReq >= 2
    /\ wr[1] = "ok" /\ wr[2] = "ok"
    /\ RecordOf(1) # RecordOf(2)
    /\ StoreOf(1) = StoreOf(2)
    /\ Len(StoreOf(1)) = 2
    /\ StoreOf(1)[1] = RecordOf(2)
    /\ StoreOf(1)[2] = RecordOf(1)

-----------------------------------------------------------------------------
(* Properties of /stats in the file-log variant, checked under SpecStats *)

\* The events stored in the file, in file order.
StoredEvents ==
    LET ls == SelectSeq(Contents(file), LAMBDA l : l.raw = "json")
    IN  [i \in 1..Len(ls) |->
            [type |-> ls[i].type, lead_id |-> ls[i].lead_id,
             campaign |-> ls[i].campaign]]

\* The campaign a stored event is counted under.
KeyOf(e) == IF e.campaign = "" THEN "(none)" ELSE e.campaign

\* rows is the table of the events of type t: one row per campaign key,
\* with its number of events and of distinct leads, largest total first.
TableOf(rows, t) ==
    LET idx == {i \in 1..Len(StoredEvents) : StoredEvents[i].type = t}
        keys == {KeyOf(StoredEvents[i]) : i \in idx}
        of(k) == {i \in idx : KeyOf(StoredEvents[i]) = k}
    IN  /\ {rows[i].campaign : i \in 1..Len(rows)} = keys
        /\ Len(rows) = Cardinality(keys)
        /\ \A i \in 1..Len(rows) :
              /\ rows[i].total = Cardinality(of(rows[i].campaign))
              /\ rows[i].unique =
                   Cardinality({StoredEvents[j].lead_id :
                                   j \in of(rows[i].campaign)})
        /\ \A i \in 1..(Len(rows) - 1) : rows[i].total >= rows[i + 1].total

\* C4: for any stored event list, each table of /stats has one row per
\* campaign key with the key's total and unique-lead count, in
\* non-increasing order of total.
C4_StatsTables ==
    page.read \in {"ok", "ENOENT"}
    => /\ page.outcome = "sent"
       /\ TableOf(page.clicks, "click")
       /\ TableOf(page.opens, "open")
       /\ TableOf(page.conversions, "conv")

\* The lines of the file that JSON.parse accepts.
ParseableLines ==
    SelectSeq(Contents(file), LAMBDA l : l.raw \in {"json", "null"})

\* C8: for any mix of parseable and unparseable lines, /stats succeeds and
\* its tables are those computed from the parseable lines alone.
C8_UnparseableLinesSkipped ==
    page.read = "ok"
    => /\ page.outcome = "sent"
       /\ page = FileStatsPage(ParseableLines, "ok")

\* C9: /stats answers a missing file (ENOENT) or a store of zero events
\* with a 200 report whose tables are all empty; any other read error is
\* propagated and the request ends without a report.
C9_ReadOutcomes ==
    /\ (page.read = "ENOENT" \/ (page.read = "ok" /\ StoredEvents = <<>>))
       => /\ page.outcome = "sent"
          /\ page.status = 200
          /\ page.clicks = <<>>
          /\ page.opens = <<>>
          /\ page.conversions = <<>>
    /\ page.read = "EIO" => page.outcome = "rejected"

\* C9 witness: the read of an existing, non-empty log failed and /stats
\* ended without a report.
C9_Witness ==
    /\ page.read = "EIO"
    /\ StoredEvents # <<>>
    /\ page.outcome = "rejected"

RowSet(rows) == {rows[i] : i \in 1..Len(rows)}

Sorted(rows) == \A i \in 1..(Len(rows) - 1) : rows[i].total >= rows[i + 1].total

\* The file with its lines rearranged by p.
Permuted(p) == [i \in 1..Len(file) |-> file[p[i]]]

\* C10: aggregation is order-independent.  The report computed from any
\* permutation of the log has, per event type, the same set of rows
\* (campaign key, total, unique leads) as the report of the log itself, and
\* its rows are in non-increasing order of total too: only rows of equal
\* total may change places.
C10_OrderIndependent ==
    page.read = "ok"
    => \A p \in Orderings(1..Len(file)) :
          LET q == FileStatsPage(Permuted(p), "ok")
          IN  /\ q.outcome = page.outcome
              /\ RowSet(q.clicks) = RowSet(page.clicks)
              /\ RowSet(q.opens) = RowSet(page.opens)
              /\ RowSet(q.conversions) = RowSet(page.conversions)
              /\ Sorted(q.clicks) /\ Sorted(q.opens) /\ Sorted(q.conversions)

\* C10 witness: a report of a log whose click rows had to be reordered: the
\* campaign seen first has the smaller total.
C10_Witness ==
    /\ page.read = "ok"
    /\ page.outcome = "sent"
    /\ Len(page.clicks) = 2
    /\ page.clicks[1].total > page.clicks[2].total
    /\ KeyOf(StoredEvents[1]) = page.clicks[2].campaign

=============================================================================
